---------------------------- MODULE Spec2Model ----------------------------
(***************************************************************************)
(* The orchestrator of src/src/orchestrator/core.py as a state machine,    *)
(* and the supervision policy engines of src/src/supervisor_agent          *)
(* (minimax_agent.py, expectimax_agent.py) as operators over AgentStates.  *)
(*                                                                         *)
(* Threads: one client thread that calls the public methods, the           *)
(* assignment loops created by start() (_main_loop), and the execution     *)
(* units (_execute_task).  Every `with self._lock:` of the source is an    *)
(* acquisition of the one threading.Lock created in __init__; a thread's   *)
(* position is the source line it stands at (pc).                          *)
(*                                                                         *)
(* Floats are exact multiples of 1/Scale; the policy engines' results were *)
(* compared with the Python source's on every modelled input.              *)
(***************************************************************************)
EXTENDS Integers, Sequences, FiniteSets, TLC

\* ------------------------------------------------------------------ bounds
MaxGoals == 2
MaxLoops == 2
MaxUnits == 1

\* ------------------------------------------------------------- value sets
AgentIds == {"agent-1", "agent-2"}
AgentNames == {"MultiAgent"}
FullCaps == {"python", "file_io", "test_execution"}
CapSets == {FullCaps, {"general"}}

\* Goal descriptions, as sequences of characters.
TextBoth == <<"s", "c", "r", "a", "p", "e", " ", "s", "c", "r", "i", "p", "t">>
TextBothMixedCase == <<"S", "C", "R", "A", "P", "E", " ", "S", "c", "r", "i", "p", "t">>
TextScriptScraping == <<"s", "c", "r", "i", "p", "t", " ", "s", "c", "r", "a", "p", "i", "n", "g">>
TextScraperScript == <<"a", " ", "s", "c", "r", "a", "p", "e", "r", " ", "s", "c", "r", "i", "p", "t">>
TextDescriptionScrape == <<"d", "e", "s", "c", "r", "i", "p", "t", "i", "o", "n", " ", "s", "c", "r", "a", "p", "e">>
TextScrapeCapital == <<"S", "c", "r", "a", "p", "e">>
TextScript == <<"s", "c", "r", "i", "p", "t">>
TextScriptUpper == <<"S", "C", "R", "I", "P", "T">>
TextScrape == <<"s", "c", "r", "a", "p", "e">>
TextEmpty == <<>>

\* The descriptions the client submits: one that names both keywords, one that
\* names one of them, and the empty one.
Descriptions == {TextBoth, TextScript, TextEmpty}

GoalTexts == {TextBoth, TextBothMixedCase, TextScriptScraping, TextScraperScript, TextDescriptionScrape,
              TextScrapeCapital, TextScript, TextScriptUpper, TextScrape, TextEmpty}

\* What validate_output hands back: a result whose intervention_required flag
\* is false, one whose flag is true, and one without the looked-up keys.
NoIntervention == "no_intervention"
Intervention == "intervention_required"
Malformed == "malformed"
ValidationResults == {NoIntervention, Intervention, Malformed}

Free == <<"free", 0>>
Client == <<"client", 0>>
Loops == {<<"loop", i>> : i \in 1..MaxLoops}
Units == {<<"unit", j>> : j \in 1..MaxUnits}
Threads == {Client} \cup Loops \cup Units

NoTask == <<0, 0>>
NoOutput == [kind |-> "none", val |-> "none"]
NoArgs == [agent |-> "none", status |-> "none", task |-> NoTask]
NoUnit == [task |-> NoTask, agent |-> "none", result |-> "none", err |-> "none"]
NoState == [quality_score |-> 0, error_count |-> 0, resource_usage |-> 0,
            task_progress |-> 0, drift_score |-> 0]
NoRet == [call |-> "none", depth |-> 0, value |-> "none"]

VARIABLES
    agent_pool,   \* self.agent_pool: the entries in insertion order
    projects,     \* self.projects: goal-1, goal-2, ... in insertion order
    lock,         \* self._lock: Free or the thread that holds it
    is_running,   \* self.is_running
    pc,           \* each thread's position in the source
    uas_args,     \* the arguments of a thread's update_agent_status call
    loop_task,    \* the ready task a loop is looking for an agent for
    unit,         \* an execution unit's task, agent and locals
    state,        \* the AgentState a caller hands to get_best_action
    hash_order,   \* the order in which this process iterates a set of Actions
    ret           \* what the caller's last completed call returned

\* The caller's side of a call: its argument and what it got back.
caller == <<state, hash_order, ret>>

vars == <<agent_pool, projects, lock, is_running, pc, uas_args, loop_task, unit, caller>>

\* ------------------------------------------------------- models (spec, s.3)
NewAgent(id, name, caps) ==
    [id |-> id, name |-> name, capabilities |-> caps,
     status |-> "IDLE", current_task_id |-> NoTask]

NewTask == [status |-> "PENDING", output_data |-> NoOutput, completed_at |-> FALSE]

\* ------------------------------------------------------------- submit_goal
UpperCase == <<"A", "B", "C", "D", "E", "F", "G", "H", "I", "J", "K", "L", "M",
               "N", "O", "P", "Q", "R", "S", "T", "U", "V", "W", "X", "Y", "Z">>

LowerCase == <<"a", "b", "c", "d", "e", "f", "g", "h", "i", "j", "k", "l", "m",
               "n", "o", "p", "q", "r", "s", "t", "u", "v", "w", "x", "y", "z">>

\* str.lower()
LowerChar(c) ==
    IF \E i \in 1..26 : UpperCase[i] = c
    THEN LowerCase[CHOOSE i \in 1..26 : UpperCase[i] = c]
    ELSE c

Lower(text) == [i \in 1..Len(text) |-> LowerChar(text[i])]

\* word in text
Contains(text, word) ==
    \E i \in 0..Len(text) :
        i + Len(word) <= Len(text) /\ SubSeq(text, i + 1, i + Len(word)) = word

\* A decomposition that looks for the keywords in the text as written.
IsTemplateCaseSensitive(d) ==
    Contains(d, <<"s", "c", "r", "i", "p", "t">>) /\ Contains(d, <<"s", "c", "r", "a", "p", "e">>)

\* line 89
IsTemplate(d) ==
    /\ Contains(Lower(d), <<"s", "c", "r", "i", "p", "t">>)
    /\ Contains(Lower(d), <<"s", "c", "r", "a", "p", "e">>)

NumTasks(d) == IF IsTemplate(d) THEN 3 ELSE 1

\* A template whose report does not wait for the code.
DependenciesOfTestsOnly(d, k) == IF IsTemplate(d) /\ k = 2 THEN {1} ELSE {}

Dependencies(d, k) == IF IsTemplate(d) /\ k \in {2, 3} THEN {1} ELSE {}

RequiredCapabilities(d, k) ==
    IF IsTemplate(d)
    THEN CASE k = 1 -> {"python", "file_io"}
           [] k = 2 -> {"python", "test_execution"}
           [] OTHER -> {"text_analysis"}
    ELSE {"general"}

\* goal_id is the number in goal-<n>; a task's id is its goal's id and its
\* number in the template.
NewProject(d) ==
    [goal_id |-> Len(projects) + 1, description |-> d,
     tasks |-> [k \in 1..NumTasks(d) |-> NewTask]]

TaskIds == {<<g, k>> \in (1..Len(projects)) \X (1..3) : k \in DOMAIN projects[g].tasks}

TaskOf(t) == projects[t[1]].tasks[t[2]]

\* ----------------------------------------------------- ProjectGoal (spec)
ProjectStatus(g) ==
    LET ts == projects[g].tasks IN
    IF \A k \in DOMAIN ts : ts[k].status = "COMPLETED" THEN "COMPLETED"
    ELSE IF \E k \in DOMAIN ts : ts[k].status = "FAILED" THEN "FAILED"
    ELSE "IN_PROGRESS"

GetReadyTasks(g) ==
    LET p == projects[g] IN
    {k \in DOMAIN p.tasks :
        /\ p.tasks[k].status = "PENDING"
        /\ \A dep \in Dependencies(p.description, k) : p.tasks[dep].status = "COMPLETED"}

\* ---------------------------------------------------------------- the lock
\* threading.Lock is not reentrant: acquire() blocks while the lock is held,
\* whoever holds it.
CanAcquire(th) == lock = Free

\* --------------------------------------------------------- agent registry
IndexOf(id) == CHOOSE i \in 1..Len(agent_pool) : agent_pool[i].id = id

Registered(id) == \E i \in 1..Len(agent_pool) : agent_pool[i].id = id

\* A registration that always adds an entry.
RegisterUpdateAppends(id, name, caps) == Append(agent_pool, NewAgent(id, name, caps))

RegisterUpdate(id, name, caps) ==
    IF Registered(id)
    THEN [agent_pool EXCEPT ![IndexOf(id)] =
              [@ EXCEPT !.name = name, !.capabilities = caps, !.status = "IDLE"]]
    ELSE Append(agent_pool, NewAgent(id, name, caps))

\* register_agent: the whole call runs under the lock and calls nothing that
\* takes it again.
RegisterAgent(id, name, caps) ==
    /\ pc[Client] = "idle"
    /\ CanAcquire(Client)
    /\ agent_pool' = RegisterUpdate(id, name, caps)
    /\ UNCHANGED <<projects, lock, is_running, pc, uas_args, loop_task, unit, caller>>

\* submit_goal: goal_id is goal-(len(projects)+1); the whole call runs under
\* the lock.
SubmitGoal(d) ==
    /\ pc[Client] = "idle"
    /\ Len(projects) < MaxGoals
    /\ CanAcquire(Client)
    /\ projects' = Append(projects, NewProject(d))
    /\ UNCHANGED <<agent_pool, lock, is_running, pc, uas_args, loop_task, unit, caller>>

\* The client calls update_agent_status(agent_id, status, task_id): it now
\* stands at line 56, about to take the lock.
UpdateAgentStatusCall(id, status, task) ==
    /\ pc[Client] = "idle"
    /\ pc' = [pc EXCEPT ![Client] = "uas56"]
    /\ uas_args' = [uas_args EXCEPT ![Client] = [agent |-> id, status |-> status, task |-> task]]
    /\ UNCHANGED <<agent_pool, projects, lock, is_running, loop_task, unit, caller>>

\* ------------------------------------------------------------ start / stop
StartedLoops == {l \in Loops : pc[l] # "none"}

\* A start() that does not look at the flag.
StartUnguarded ==
    /\ pc[Client] = "idle"
    /\ Cardinality(StartedLoops) < MaxLoops
    /\ is_running' = TRUE
    /\ pc' = [pc EXCEPT ![<<"loop", Cardinality(StartedLoops) + 1>>] = "l160"]
    /\ UNCHANGED <<agent_pool, projects, lock, uas_args, loop_task, unit, caller>>

Start ==
    /\ pc[Client] = "idle"
    /\ ~is_running
    /\ Cardinality(StartedLoops) < MaxLoops
    /\ is_running' = TRUE
    /\ pc' = [pc EXCEPT ![<<"loop", Cardinality(StartedLoops) + 1>>] = "l160"]
    /\ UNCHANGED <<agent_pool, projects, lock, uas_args, loop_task, unit, caller>>

\* start() on a running orchestrator returns at once.
StartAgain ==
    /\ pc[Client] = "idle"
    /\ is_running
    /\ UNCHANGED vars

Stop ==
    /\ pc[Client] = "idle"
    /\ is_running' = FALSE
    /\ UNCHANGED <<agent_pool, projects, lock, pc, uas_args, loop_task, unit, caller>>

\* ------------------------------------------------- with self._lock: (enter)
\* Where a thread stands after it has taken the lock at a `with self._lock:`.
AfterAcquire(p) ==
    CASE p = "l161" -> "l162"       \* _main_loop
      [] p = "uas56" -> "get46"     \* update_agent_status, which calls get_agent
      [] p = "get46" -> "uas58"     \* get_agent, called by update_agent_status
      [] p = "find68" -> "find69"   \* find_available_agent, called by _main_loop
      [] p = "e137" -> "e138"       \* _execute_task, the result
      [] p = "e148" -> "e149"       \* _execute_task, the exception handler
      [] OTHER -> p

AcquireSites == {"l161", "uas56", "get46", "find68", "e137", "e148"}

Acquire(th) ==
    /\ pc[th] \in AcquireSites
    /\ CanAcquire(th)
    /\ lock' = th
    /\ pc' = [pc EXCEPT ![th] = AfterAcquire(pc[th])]
    /\ UNCHANGED <<agent_pool, projects, is_running, uas_args, loop_task, unit, caller>>

\* ---------------------------------------------------------------- _main_loop
\* line 160: while self.is_running
LoopCheck(l) ==
    /\ pc[l] = "l160"
    /\ pc' = [pc EXCEPT ![l] = IF is_running THEN "l161" ELSE "exit"]
    /\ UNCHANGED <<agent_pool, projects, lock, is_running, uas_args, loop_task, unit, caller>>

\* The ready tasks the pass meets, in the order it meets them: projects in
\* insertion order, skipping the finished ones, each project's ready tasks.
PassTasks ==
    {<<g, k>> \in TaskIds :
        /\ ProjectStatus(g) \notin {"COMPLETED", "FAILED"}
        /\ k \in GetReadyTasks(g)}

FirstTask(S) ==
    CHOOSE t \in S : \A u \in S : t[1] < u[1] \/ (t[1] = u[1] /\ t[2] <= u[2])

\* lines 162-168, holding the lock: with no ready task the pass ends and the
\* lock is released; otherwise the loop calls find_available_agent for the
\* first ready task and stands at that method's line 68.
LoopPass(l) ==
    /\ pc[l] = "l162"
    /\ lock = l
    /\ IF PassTasks = {}
       THEN /\ lock' = Free
            /\ pc' = [pc EXCEPT ![l] = "l178"]
            /\ UNCHANGED loop_task
       ELSE /\ loop_task' = [loop_task EXCEPT ![l] = FirstTask(PassTasks)]
            /\ pc' = [pc EXCEPT ![l] = "find68"]
            /\ UNCHANGED lock
    /\ UNCHANGED <<agent_pool, projects, is_running, uas_args, unit, caller>>

\* line 178: time.sleep(2)
LoopSleep(l) ==
    /\ pc[l] = "l178"
    /\ pc' = [pc EXCEPT ![l] = "l160"]
    /\ UNCHANGED <<agent_pool, projects, lock, is_running, uas_args, loop_task, unit, caller>>

\* ------------------------------------------------------------- _execute_task
TaskUpdate(t, status, output, done) ==
    [projects EXCEPT ![t[1]].tasks[t[2]] =
        [status |-> status, output_data |-> output, completed_at |-> done]]

\* lines 119-125: the monitor call returns or raises.
ExecMonitor(u, raises) ==
    /\ pc[u] = "e119"
    /\ IF raises
       THEN /\ pc' = [pc EXCEPT ![u] = "e148"]
            /\ unit' = [unit EXCEPT ![u].err = "monitor_agent"]
       ELSE /\ pc' = [pc EXCEPT ![u] = "e131"]
            /\ UNCHANGED unit
    /\ UNCHANGED <<agent_pool, projects, lock, is_running, uas_args, loop_task, caller>>

\* lines 128-134: the simulated work, then the validate call returns a result
\* or raises.
ExecValidate(u, raises, r) ==
    /\ pc[u] = "e131"
    /\ IF raises
       THEN /\ pc' = [pc EXCEPT ![u] = "e148"]
            /\ unit' = [unit EXCEPT ![u].err = "validate_output"]
       ELSE /\ pc' = [pc EXCEPT ![u] = "e137"]
            /\ unit' = [unit EXCEPT ![u].result = r]
    /\ UNCHANGED <<agent_pool, projects, lock, is_running, uas_args, loop_task, caller>>

\* A unit that ignores the flag.
StatusForIgnoresFlag(r) == "COMPLETED"

\* The status lines 139-143 give the task for a validation result.
StatusFor(r) == IF r = Intervention THEN "FAILED" ELSE "COMPLETED"

\* lines 138-145, holding the lock: output_data is set first; a result without
\* the looked-up keys raises KeyError at line 139, which leaves the with block
\* (releasing the lock) for the handler.
ExecRecord(u) ==
    /\ pc[u] = "e138"
    /\ lock = u
    /\ LET t == unit[u].task
           r == unit[u].result
           out == [kind |-> "validation", val |-> r] IN
       IF r = Malformed
       THEN /\ projects' = TaskUpdate(t, TaskOf(t).status, out, TaskOf(t).completed_at)
            /\ unit' = [unit EXCEPT ![u].err = "KeyError"]
            /\ pc' = [pc EXCEPT ![u] = "e148"]
       ELSE /\ projects' = TaskUpdate(t, StatusFor(r), out, TRUE)
            /\ pc' = [pc EXCEPT ![u] = "e155"]
            /\ UNCHANGED unit
    /\ lock' = Free
    /\ UNCHANGED <<agent_pool, is_running, uas_args, loop_task, caller>>

\* A handler that marks the task but does not capture the error.
ExceptUpdateNoCapture(t, e) ==
    TaskUpdate(t, "FAILED", TaskOf(t).output_data, TaskOf(t).completed_at)

\* What the handler of lines 147-151 writes to the task.
ExceptUpdate(t, e) ==
    TaskUpdate(t, "FAILED", [kind |-> "error", val |-> e], TaskOf(t).completed_at)

\* lines 149-151, holding the lock.
ExecExcept(u) ==
    /\ pc[u] = "e149"
    /\ lock = u
    /\ projects' = ExceptUpdate(unit[u].task, unit[u].err)
    /\ lock' = Free
    /\ pc' = [pc EXCEPT ![u] = "e155"]
    /\ UNCHANGED <<agent_pool, is_running, uas_args, loop_task, unit, caller>>

\* line 155, the finally block: update_agent_status(agent.agent_id, IDLE).
ExecFinally(u) ==
    /\ pc[u] = "e155"
    /\ pc' = [pc EXCEPT ![u] = "uas56"]
    /\ uas_args' = [uas_args EXCEPT ![u] =
                        [agent |-> unit[u].agent, status |-> "IDLE", task |-> NoTask]]
    /\ UNCHANGED <<agent_pool, projects, lock, is_running, loop_task, unit, caller>>

\* _execute_task entered as a thread's target (line 175) with a task and an
\* agent of the orchestrator.
ExecStart(u, t, a) ==
    /\ pc[u] = "none"
    /\ \A v \in Units : v[2] < u[2] => pc[v] # "none"
    /\ t \in TaskIds
    /\ Registered(a)
    /\ pc' = [pc EXCEPT ![u] = "e119"]
    /\ unit' = [unit EXCEPT ![u] = [task |-> t, agent |-> a, result |-> "none", err |-> "none"]]
    /\ UNCHANGED <<agent_pool, projects, lock, is_running, uas_args, loop_task, caller>>

\* ------------------------------------------------- supervision policy engine
\* The float fields of an AgentState and the scores are kept as exact
\* multiples of 1/Scale: 1.0 is Scale, 0.95 is 95 * Scale \div 100.  Every
\* product and sum of the two searches, down to depth 2 from a state whose
\* fields are multiples of 0.05, is a whole number of such units.
Scale == 800000

Frac(n, d) == (n * Scale) \div d

\* math.inf and -math.inf, beyond every score.
Inf == 2000 * Scale
NegInf == 0 - Inf

Actions == {"ALLOW", "WARN", "CORRECT", "ESCALATE"}

\* AgentState(quality_score, error_count, resource_usage, task_progress): the
\* expectimax module's dataclass has a fifth field, drift_score, default 0.0.
AgentState(q, e, r, p) ==
    [quality_score |-> q, error_count |-> e, resource_usage |-> r,
     task_progress |-> p, drift_score |-> 0]

\* A state that is terminal on success alone.
is_terminal_on_success(s) == s.task_progress >= Scale

is_terminal(s) == s.task_progress >= Scale \/ s.quality_score <= Frac(1, 10)

Min2(a, b) == IF a <= b THEN a ELSE b

Max2(a, b) == IF a >= b THEN a ELSE b

SetMax(S) == CHOOSE x \in S : \A y \in S : y <= x

\* list(set(actions)): the members of the set in this process's iteration
\* order.
RECURSIVE Filter(_, _)
Filter(list, S) ==
    IF list = <<>> THEN <<>>
    ELSE IF Head(list) \in S THEN <<Head(list)>> \o Filter(Tail(list), S)
    ELSE Filter(Tail(list), S)

ListOfSet(S) == Filter(hash_order, S)

\* sorted(considered_actions, key=score, reverse=True): Python's sort is
\* stable, also in reverse, so entries of equal score keep their order.
RECURSIVE InsertByScore(_, _)
InsertByScore(entry, sorted) ==
    IF sorted = <<>> THEN <<entry>>
    ELSE IF Head(sorted).score >= entry.score
         THEN <<Head(sorted)>> \o InsertByScore(entry, Tail(sorted))
         ELSE <<entry>> \o sorted

RECURSIVE SortedByScore(_)
SortedByScore(list) ==
    IF list = <<>> THEN <<>>
    ELSE LET n == Len(list) IN
         InsertByScore(list[n], SortedByScore(SubSeq(list, 1, n - 1)))

\* The loop of get_best_action over the scored actions: a later action
\* replaces the best one only with a strictly greater score.
RECURSIVE BestOf(_, _)
BestOf(scored, best) ==
    IF scored = <<>> THEN best
    ELSE BestOf(Tail(scored),
                IF Head(scored).score > best.score THEN Head(scored) ELSE best)

\* get_best_action's result for the scored actions, in iteration order.
BestActionResult(scored, s) ==
    LET best == BestOf(scored, [action |-> "None", score |-> NegInf]) IN
    [best_action |-> IF best.action = "None" THEN "ALLOW" ELSE best.action,
     best_score |-> best.score,
     considered_actions |-> SortedByScore(scored),
     state_evaluated |-> s]

\* ------------------------------------------------------------- MinimaxAgent
MinimaxEvaluateState(s) ==
    IF is_terminal(s)
    THEN IF s.task_progress >= Scale THEN 1000 * Scale ELSE 0 - 1000 * Scale
    ELSE s.quality_score * 70 + s.task_progress * 30
         - s.error_count * 200 * Scale - s.resource_usage * 40

\* A rule set without the mandatory escalation.
MinimaxGetPossibleActionsNoEscalation(s) ==
    IF s.quality_score > Frac(9, 10) THEN {"ALLOW", "WARN"}
    ELSE IF s.quality_score < Frac(4, 10) THEN {"CORRECT", "ESCALATE"}
    ELSE {"ALLOW", "WARN", "CORRECT", "ESCALATE"}

MinimaxGetPossibleActions(s) ==
    IF s.error_count >= 3 THEN {"ESCALATE"}
    ELSE IF s.quality_score > Frac(9, 10) THEN {"ALLOW", "WARN"}
    ELSE IF s.quality_score < Frac(4, 10) THEN {"CORRECT", "ESCALATE"}
    ELSE {"ALLOW", "WARN", "CORRECT", "ESCALATE"}

MinimaxApplyAction(s, action) ==
    LET new_state ==
          CASE action = "ALLOW" ->
                 [s EXCEPT !.task_progress = @ + Frac(1, 10),
                           !.quality_score = (@ * 95) \div 100]
            [] action = "WARN" ->
                 [s EXCEPT !.task_progress = @ + Frac(5, 100),
                           !.resource_usage = Min2(Scale, @ + Frac(1, 10))]
            [] action = "CORRECT" ->
                 LET cost == [s EXCEPT !.resource_usage = Min2(Scale, @ + Frac(15, 100))]
                     fixed == IF s.quality_score < Frac(85, 100)
                              THEN [cost EXCEPT
                                      !.quality_score =
                                          Min2(Scale, @ + (4 * (Scale - s.quality_score)) \div 10),
                                      !.error_count = Max2(0, @ - 1)]
                              ELSE cost
                 IN [fixed EXCEPT !.task_progress = @ + Frac(1, 10)]
            [] OTHER ->
                 [s EXCEPT !.task_progress = (@ * 2) \div 10,
                           !.quality_score = @ \div 10,
                           !.error_count = @ + 1]
    IN [new_state EXCEPT !.resource_usage = Min2(Scale, @ + Frac(5, 100))]

\* minimax(state, depth, maximizing_player).  The minimizing player decays
\* the quality of the state it was handed and searches on from it.
RECURSIVE Minimax(_, _, _)
Minimax(s, depth, maximizing_player) ==
    IF depth = 0 \/ is_terminal(s) THEN MinimaxEvaluateState(s)
    ELSE IF maximizing_player
    THEN SetMax({NegInf} \cup
                {Minimax(MinimaxApplyAction(s, a), depth - 1, FALSE) :
                     a \in MinimaxGetPossibleActions(s)})
    ELSE Min2(Inf, Minimax([s EXCEPT !.quality_score = (@ * 95) \div 100],
                           depth - 1, TRUE))

\* A root that scores the state it was handed under every action.
MinimaxScoredOfState(s, depth) ==
    LET actions == ListOfSet(MinimaxGetPossibleActions(s)) IN
    [i \in 1..Len(actions) |->
        [action |-> actions[i], score |-> Minimax(s, depth, FALSE)]]

MinimaxScored(s, depth) ==
    LET actions == ListOfSet(MinimaxGetPossibleActions(s)) IN
    [i \in 1..Len(actions) |->
        [action |-> actions[i],
         score |-> Minimax(MinimaxApplyAction(s, actions[i]), depth, FALSE)]]

MinimaxGetBestAction(s, depth) == BestActionResult(MinimaxScored(s, depth), s)

\* ---------------------------------------------------------- ExpectimaxAgent
ExpectimaxEvaluateState(s) ==
    IF is_terminal(s)
    THEN IF s.task_progress >= Scale THEN 1000 * Scale ELSE 0 - 1000 * Scale
    ELSE s.quality_score * 60 + s.task_progress * 20 - s.drift_score * 100
         - s.error_count * 200 * Scale - s.resource_usage * 40

ExpectimaxGetPossibleActions(s) ==
    IF s.error_count >= 3 THEN {"ESCALATE"}
    ELSE IF s.quality_score >= Frac(9, 10) THEN {"ALLOW", "WARN"}
    ELSE IF s.quality_score < Frac(4, 10) THEN {"CORRECT", "ESCALATE"}
    ELSE {"ALLOW", "WARN", "CORRECT", "ESCALATE"}

\* _get_action_outcomes: the (probability, next_state) pairs, probabilities
\* in tenths.  base_state is built from four fields of the state, so its
\* drift_score is the default.
ExpectimaxGetActionOutcomes(s, action) ==
    LET base_state ==
          [AgentState(s.quality_score, s.error_count, s.resource_usage, s.task_progress)
              EXCEPT !.resource_usage = Min2(Scale, @ + Frac(5, 100))]
    IN CASE action = "ALLOW" ->
              << <<8, [base_state EXCEPT !.quality_score = (@ * 95) \div 100,
                                         !.task_progress = @ + Frac(1, 10)]>>,
                 <<2, [base_state EXCEPT !.task_progress = @ + Frac(1, 10)]>> >>
         [] action = "WARN" ->
              << <<10, [base_state EXCEPT !.task_progress = @ + Frac(5, 100),
                                          !.resource_usage = Min2(Scale, @ + Frac(1, 10))]>> >>
         [] action = "CORRECT" ->
              LET cost == [base_state EXCEPT !.resource_usage = Min2(Scale, @ + Frac(15, 100))]
                  fixed == IF s.quality_score < Frac(85, 100)
                           THEN [cost EXCEPT
                                   !.quality_score =
                                       Min2(Scale, s.quality_score
                                                   + (4 * (Scale - s.quality_score)) \div 10),
                                   !.error_count = Max2(0, s.error_count - 1)]
                           ELSE cost
              IN << <<7, [fixed EXCEPT !.task_progress = @ + Frac(1, 10)]>>,
                    <<3, [cost EXCEPT !.task_progress = @ + Frac(2, 100)]>> >>
         [] OTHER ->
              << <<10, [base_state EXCEPT !.task_progress = (@ * 2) \div 10,
                                          !.quality_score = @ \div 10,
                                          !.error_count = @ + 1]>> >>

\* _get_action_value(state, action, depth, alpha, beta): alpha and beta are
\* passed along and never read.
RECURSIVE ExpectimaxGetActionValue(_, _, _)
ExpectimaxGetActionValue(s, action, depth) ==
    IF depth = 0 \/ is_terminal(s) THEN ExpectimaxEvaluateState(s)
    ELSE LET outcomes == ExpectimaxGetActionOutcomes(s, action)
             max_next_eval(next_state) ==
                 SetMax({NegInf} \cup
                        {ExpectimaxGetActionValue(next_state, next_action, depth - 1) :
                             next_action \in ExpectimaxGetPossibleActions(next_state)})
             term(i) == outcomes[i][1] * (max_next_eval(outcomes[i][2]) \div 10)
         IN IF Len(outcomes) = 1 THEN term(1) ELSE term(1) + term(2)

ExpectimaxScored(s, depth) ==
    LET actions == ListOfSet(ExpectimaxGetPossibleActions(s)) IN
    [i \in 1..Len(actions) |->
        [action |-> actions[i],
         score |-> ExpectimaxGetActionValue(s, actions[i], depth)]]

ExpectimaxGetBestAction(s, depth) == BestActionResult(ExpectimaxScored(s, depth), s)

\* ------------------------------------------------------------ specification
\* Orchestrator.__init__, with no thread started yet.
InitOrchestrator ==
    /\ agent_pool = <<>>
    /\ projects = <<>>
    /\ lock = Free
    /\ is_running = FALSE
    /\ pc = [th \in Threads |-> IF th = Client THEN "idle" ELSE "none"]
    /\ uas_args = [th \in Threads |-> NoArgs]
    /\ loop_task = [l \in Loops |-> NoTask]
    /\ unit = [u \in Units |-> NoUnit]

Init ==
    /\ InitOrchestrator
    /\ state = NoState
    /\ hash_order = <<>>
    /\ ret = NoRet

ClientCall ==
    \/ \E id \in AgentIds, name \in AgentNames, caps \in CapSets : RegisterAgent(id, name, caps)
    \/ \E d \in Descriptions : SubmitGoal(d)
    \/ \E id \in AgentIds, s \in {"IDLE", "BUSY"} : UpdateAgentStatusCall(id, s, NoTask)
    \/ Start
    \/ StartAgain
    \/ Stop

LoopStep ==
    \E l \in Loops : LoopCheck(l) \/ LoopPass(l) \/ LoopSleep(l)

Next ==
    \/ ClientCall
    \/ LoopStep
    \/ \E th \in Threads : Acquire(th)

Spec == Init /\ [][Next]_vars

\* Threads run: each step of a loop that is enabled is eventually taken, and
\* a thread waiting for the lock gets it if the lock keeps becoming free.
LoopFairness ==
    /\ \A l \in Loops : WF_vars(LoopCheck(l)) /\ WF_vars(LoopPass(l)) /\ WF_vars(LoopSleep(l))
    /\ \A th \in Threads : SF_vars(Acquire(th))

FairSpec == Spec /\ LoopFairness

\* The execution units, driven directly: each unit is _execute_task run in a
\* thread of its own on a task and a registered agent of the orchestrator,
\* beside the client's registrations and one submission.
UnitStep ==
    \E u \in Units :
        \/ \E raises \in BOOLEAN : ExecMonitor(u, raises)
        \/ \E raises \in BOOLEAN, r \in ValidationResults : ExecValidate(u, raises, r)
        \/ ExecRecord(u)
        \/ ExecExcept(u)
        \/ ExecFinally(u)

UnitStart ==
    \E u \in Units, t \in (1..MaxGoals) \X (1..3), a \in AgentIds : ExecStart(u, t, a)

UnitClient ==
    \/ \E id \in AgentIds, name \in AgentNames : RegisterAgent(id, name, FullCaps)
    \/ \E d \in Descriptions : projects = <<>> /\ SubmitGoal(d)

NextExec ==
    \/ UnitClient
    \/ \E u \in Units : Acquire(u)
    \/ UnitStart
    \/ UnitStep

SpecExec == Init /\ [][NextExec]_vars

UnitFairness ==
    \A u \in Units :
        /\ WF_vars(\E raises \in BOOLEAN : ExecMonitor(u, raises))
        /\ WF_vars(\E raises \in BOOLEAN, r \in ValidationResults : ExecValidate(u, raises, r))
        /\ WF_vars(ExecRecord(u))
        /\ WF_vars(ExecExcept(u))
        /\ WF_vars(ExecFinally(u))
        /\ SF_vars(Acquire(u))

FairSpecExec == SpecExec /\ UnitFairness

\* The same beside one assignment loop.
NextUnit ==
    \/ UnitClient
    \/ StartedLoops = {} /\ Start
    \/ LoopStep
    \/ \E th \in Threads : Acquire(th)
    \/ UnitStart
    \/ UnitStep

SpecUnit == Init /\ [][NextUnit]_vars

FairSpecUnit == SpecUnit /\ LoopFairness /\ UnitFairness

\* ---------------------------------------------- find_available_agent, called
\* A pool that leaves every agent eligible.
RECURSIVE FindFromAnyStatus(_, _)
FindFromAnyStatus(i, required) ==
    IF i > Len(agent_pool) THEN "None"
    ELSE IF \A cap \in required : cap \in agent_pool[i].capabilities
         THEN agent_pool[i].id
         ELSE FindFromAnyStatus(i + 1, required)

\* lines 69-74: the scan over agent_pool.values(), in insertion order.
RECURSIVE FindFrom(_, _)
FindFrom(i, required) ==
    IF i > Len(agent_pool) THEN "None"
    ELSE IF /\ agent_pool[i].status = "IDLE"
            /\ \A cap \in required : cap \in agent_pool[i].capabilities
         THEN agent_pool[i].id
         ELSE FindFrom(i + 1, required)

FindAvailableAgent(required) == FindFrom(1, required)

\* The client calls find_available_agent: the whole call runs under the lock
\* and calls nothing that takes it again.
FindAvailableAgentCall(required) ==
    /\ pc[Client] = "idle"
    /\ CanAcquire(Client)
    /\ ret' = [call |-> "find_available_agent", required |-> required,
               value |-> FindAvailableAgent(required)]
    /\ UNCHANGED <<agent_pool, projects, lock, is_running, pc, uas_args, loop_task, unit,
                   state, hash_order>>

\* The registry on its own: register_agent and find_available_agent called on
\* a pool of up to two agents, IDLE or BUSY on a task.
RegistryNames == {"PythonAgent", "TextAgent"}
RegistryCaps == {{"python", "file_io"}, {"text_analysis"}, {"python"}}
RequiredSets == {{"python"}, {"test_execution"}, {"text_analysis"}, {"python", "file_io"}, {}}

PoolAgents(id) ==
    {[NewAgent(id, "PythonAgent", caps) EXCEPT !.status = st[1], !.current_task_id = st[2]] :
        caps \in RegistryCaps, st \in {<<"IDLE", NoTask>>, <<"BUSY", <<1, 1>>>>}}

InitialPools ==
    {<<>>}
    \cup {<<a>> : a \in UNION {PoolAgents(id) : id \in AgentIds}}
    \cup {<<a, b>> : a \in PoolAgents("agent-1"), b \in PoolAgents("agent-2")}
    \cup {<<b, a>> : a \in PoolAgents("agent-1"), b \in PoolAgents("agent-2")}

InitRegistry ==
    /\ agent_pool \in InitialPools
    /\ projects = <<>>
    /\ lock = Free
    /\ is_running = FALSE
    /\ pc = [th \in Threads |-> IF th = Client THEN "idle" ELSE "none"]
    /\ uas_args = [th \in Threads |-> NoArgs]
    /\ loop_task = [l \in Loops |-> NoTask]
    /\ unit = [u \in Units |-> NoUnit]
    /\ state = NoState
    /\ hash_order = <<>>
    /\ ret = NoRet

NextRegistry ==
    \/ \E id \in AgentIds, name \in RegistryNames, caps \in RegistryCaps :
           RegisterAgent(id, name, caps)
    \/ \E required \in RequiredSets : FindAvailableAgentCall(required)

SpecRegistry == InitRegistry /\ [][NextRegistry]_vars

\* -------------------------------------------------- the task graph, called
\* A caller sets a task's status directly, as test_get_ready_tasks does.
SetTaskStatus(t, status) ==
    /\ t \in TaskIds
    /\ projects' = [projects EXCEPT ![t[1]].tasks[t[2]].status = status]
    /\ UNCHANGED <<agent_pool, lock, is_running, pc, uas_args, loop_task, unit, caller>>

\* get_ready_tasks()'s list, in the order of the project's tasks.
RECURSIVE ReadyFrom(_, _)
ReadyFrom(g, k) ==
    IF k > Len(projects[g].tasks) THEN <<>>
    ELSE IF k \in GetReadyTasks(g) THEN <<k>> \o ReadyFrom(g, k + 1)
    ELSE ReadyFrom(g, k + 1)

GetReadyTasksCall(g) ==
    /\ g \in 1..Len(projects)
    /\ ret' = [call |-> "get_ready_tasks", goal |-> g, value |-> ReadyFrom(g, 1)]
    /\ UNCHANGED <<agent_pool, projects, lock, is_running, pc, uas_args, loop_task, unit,
                   state, hash_order>>

TaskStatuses == {"PENDING", "RUNNING", "COMPLETED", "FAILED"}

NextGraph ==
    \/ \E d \in GoalTexts : projects = <<>> /\ SubmitGoal(d)
    \/ \E t \in (1..MaxGoals) \X (1..3), status \in TaskStatuses : SetTaskStatus(t, status)
    \/ \E g \in 1..MaxGoals : GetReadyTasksCall(g)

SpecGraph == Init /\ [][NextGraph]_vars

\* submit_goal on its own, for every description.
NextGoals == \E d \in GoalTexts : SubmitGoal(d)

SpecGoals == Init /\ [][NextGoals]_vars

\* start() and stop() beside the loops they start, with the client's
\* registrations and one submission.
NextLoops ==
    \/ UnitClient
    \/ Start
    \/ StartAgain
    \/ Stop
    \/ LoopStep
    \/ \E l \in Loops : Acquire(l)

SpecLoops == Init /\ [][NextLoops]_vars

\* The client alone: its calls, and its waiting for the lock.
NextClient ==
    \/ ClientCall
    \/ Acquire(Client)

SpecClient == Init /\ [][NextClient]_vars

FairSpecClient == SpecClient /\ SF_vars(Acquire(Client))

\* ------------------------------------------- the policy engine, called
\* The caller builds an AgentState, makes an agent of some depth and calls
\* get_best_action; the iteration order of a set of Actions is fixed by the
\* process's hash seed.
DefaultDepth == 2

Depths == 0..DefaultDepth

QualityScores == {Frac(k, 20) : k \in {2, 6, 8, 12, 17, 18, 19}}
ErrorCounts == {0, 2, 3}
ResourceUsages == {Frac(2, 10), Frac(9, 10)}
TaskProgresses == {Frac(1, 10), Frac(5, 10), Frac(8, 10), Scale}
DriftScores == {0, Frac(5, 10)}

InputStates ==
    {[AgentState(q, e, r, p) EXCEPT !.drift_score = d] :
        q \in QualityScores, e \in ErrorCounts, r \in ResourceUsages,
        p \in TaskProgresses, d \in DriftScores}

Orders == {o \in [1..4 -> Actions] : \A i, j \in 1..4 : o[i] = o[j] => i = j}

InitPolicy ==
    /\ InitOrchestrator
    /\ state \in InputStates
    /\ hash_order \in Orders
    /\ ret = NoRet

\* MinimaxAgent(depth).get_best_action(state); this module's AgentState has
\* no drift_score.
MinimaxCall(depth) ==
    /\ state.drift_score = 0
    /\ ret' = [call |-> "minimax", depth |-> depth,
               value |-> MinimaxGetBestAction(state, depth)]
    /\ UNCHANGED <<agent_pool, projects, lock, is_running, pc, uas_args, loop_task, unit,
                   state, hash_order>>

\* ExpectimaxAgent(depth).get_best_action(state)
ExpectimaxCall(depth) ==
    /\ ret' = [call |-> "expectimax", depth |-> depth,
               value |-> ExpectimaxGetBestAction(state, depth)]
    /\ UNCHANGED <<agent_pool, projects, lock, is_running, pc, uas_args, loop_task, unit,
                   state, hash_order>>

NextPolicy ==
    \/ \E depth \in Depths : MinimaxCall(depth)
    \/ \E depth \in Depths : ExpectimaxCall(depth)

SpecPolicy == InitPolicy /\ [][NextPolicy]_vars

\* The caller makes its next call from a new interpreter process: Action
\* members hash by their names, str hashes are salted per process, so the new
\* process may iterate a set of Actions in any other order.  The caller keeps
\* the state it built and what the last call returned.
Restart(order) ==
    /\ order # hash_order
    /\ hash_order' = order
    /\ UNCHANGED <<agent_pool, projects, lock, is_running, pc, uas_args, loop_task, unit,
                   state, ret>>

NextRestart ==
    \/ NextPolicy
    \/ \E order \in Orders : Restart(order)

SpecRestart == InitPolicy /\ [][NextRestart]_vars

\* MinimaxAgent on the states of test_correct_on_medium_state's kind: medium
\* quality, some errors, the task at most half done; and their neighbours
\* without errors, of higher quality or further on.
MediumQualityScores == {Frac(k, 20) : k \in 8..13}
MediumErrorCounts == {0, 1, 2}
MediumResourceUsages == {0, Frac(2, 10), Frac(5, 10), Frac(9, 10), Scale}
MediumTaskProgresses == {0, Frac(1, 10), Frac(25, 100), Frac(5, 10), Frac(6, 10)}

MediumStates ==
    {AgentState(q, e, r, p) :
        q \in MediumQualityScores, e \in MediumErrorCounts,
        r \in MediumResourceUsages, p \in MediumTaskProgresses}

InitMedium ==
    /\ InitOrchestrator
    /\ state \in MediumStates
    /\ hash_order \in Orders
    /\ ret = NoRet

NextMinimax == \E depth \in Depths : MinimaxCall(depth)

SpecMedium == InitMedium /\ [][NextMinimax]_vars

\* The evaluation functions on their own: _evaluate_state of either agent
\* applied to the caller's state.
MinimaxEvaluateStateCall ==
    /\ state.drift_score = 0
    /\ ret' = [call |-> "_evaluate_state", engine |-> "minimax",
               value |-> MinimaxEvaluateState(state)]
    /\ UNCHANGED <<agent_pool, projects, lock, is_running, pc, uas_args, loop_task, unit,
                   state, hash_order>>

ExpectimaxEvaluateStateCall ==
    /\ ret' = [call |-> "_evaluate_state", engine |-> "expectimax",
               value |-> ExpectimaxEvaluateState(state)]
    /\ UNCHANGED <<agent_pool, projects, lock, is_running, pc, uas_args, loop_task, unit,
                   state, hash_order>>

NextEvaluate ==
    \/ MinimaxEvaluateStateCall
    \/ ExpectimaxEvaluateStateCall

SpecEvaluate == InitPolicy /\ [][NextEvaluate]_vars

\* The outcome models on their own, applied as the searches apply them: to a
\* state that is not terminal and an action that is possible in it.  The
\* states include tasks that are nearly done.
NearDoneTaskProgresses == {Frac(5, 10), Frac(9, 10), Frac(95, 100)}

OutcomeStates ==
    {AgentState(q, e, r, p) :
        q \in QualityScores, e \in ErrorCounts,
        r \in ResourceUsages \cup {Scale}, p \in NearDoneTaskProgresses}

InitOutcomes ==
    /\ InitOrchestrator
    /\ state \in OutcomeStates
    /\ hash_order \in Orders
    /\ ret = NoRet

\* MinimaxAgent._apply_action(state, action): one successor, for certain.
MinimaxApplyActionCall(action) ==
    /\ ~is_terminal(state)
    /\ action \in MinimaxGetPossibleActions(state)
    /\ ret' = [call |-> "_apply_action", action |-> action,
               value |-> << <<10, MinimaxApplyAction(state, action)>> >>]
    /\ UNCHANGED <<agent_pool, projects, lock, is_running, pc, uas_args, loop_task, unit,
                   state, hash_order>>

\* ExpectimaxAgent._get_action_outcomes(state, action)
ExpectimaxGetActionOutcomesCall(action) ==
    /\ ~is_terminal(state)
    /\ action \in ExpectimaxGetPossibleActions(state)
    /\ ret' = [call |-> "_get_action_outcomes", action |-> action,
               value |-> ExpectimaxGetActionOutcomes(state, action)]
    /\ UNCHANGED <<agent_pool, projects, lock, is_running, pc, uas_args, loop_task, unit,
                   state, hash_order>>

NextOutcomes ==
    \/ \E action \in Actions : MinimaxApplyActionCall(action)
    \/ \E action \in Actions : ExpectimaxGetActionOutcomesCall(action)

SpecOutcomes == InitOutcomes /\ [][NextOutcomes]_vars

\* ------------------------------------------------------------------ claims
\* No assignment is ever made: under Spec every task stays PENDING and every
\* agent stays IDLE without a current task, because a pass that meets a ready
\* task never returns from find_available_agent.
NothingAssigned ==
    /\ \A t \in TaskIds : TaskOf(t).status = "PENDING"
    /\ \A i \in 1..Len(agent_pool) :
           agent_pool[i].status = "IDLE" /\ agent_pool[i].current_task_id = NoTask
    /\ \A th \in Threads : pc[th] \notin {"uas58", "find69"}

\* C4: every execution unit that was started eventually gets past get_agent
\* inside update_agent_status (line 57), the only way to the lines that set
\* its agent back to IDLE with no current task.
UnitReleasedAgent(u) == pc[u] = "uas58"

C4_UnitReleasesAgent ==
    \A u \in Units : (pc[u] # "none") ~> UnitReleasedAgent(u)

\* C5: every assignment pass that starts (the loop has taken the lock at line
\* 161) eventually finishes and releases the lock (the loop is at line 178).
InPass(l) == pc[l] \in {"l162", "find68", "find69"}

C5_PassFinishes ==
    \A l \in Loops : InPass(l) ~> (pc[l] = "l178" /\ lock # l)

\* C6: with one registered agent holding python, file_io and test_execution,
\* the scrape/script goal submitted as goal-1 and the scheduler running, task 1
\* eventually is RUNNING on the agent, then COMPLETED, and later task 2 is
\* RUNNING on the same agent; unless the client stops the scheduler or calls
\* in between.
E2ESetup ==
    /\ is_running
    /\ pc[Client] = "idle"
    /\ Len(agent_pool) = 1
    /\ agent_pool[1].capabilities = FullCaps
    /\ Len(projects) >= 1
    /\ IsTemplate(projects[1].description)

E2ERunning(k) ==
    /\ Len(projects) >= 1
    /\ projects[1].tasks[k].status = "RUNNING"
    /\ Len(agent_pool) >= 1
    /\ agent_pool[1].status = "BUSY"
    /\ agent_pool[1].current_task_id = <<1, k>>

C6_EndToEnd ==
    [](E2ESetup =>
         <>(\/ ~E2ESetup
            \/ /\ E2ERunning(1)
               /\ <>(projects[1].tasks[1].status = "COMPLETED" /\ <>E2ERunning(2))))

\* C9: the step of an execution unit that records a returned validation
\* result sets the task FAILED exactly when the result's
\* intervention_required flag is true and COMPLETED otherwise, stores the
\* result as output_data and sets completed_at.
RecordStep(u) == pc[u] = "e138" /\ pc'[u] = "e155"

C9_ValidationDecidesStatus ==
    [][\A u \in Units : RecordStep(u) =>
          LET t == unit[u].task
              r == unit[u].result
              after == projects'[t[1]].tasks[t[2]] IN
          /\ (after.status = "FAILED") <=> (r = Intervention)
          /\ (after.status = "COMPLETED") <=> (r = NoIntervention)
          /\ after.output_data = [kind |-> "validation", val |-> r]
          /\ after.completed_at]_vars

C9_Witness ==
    \E u \in Units :
        /\ pc[u] = "e155"
        /\ unit[u].result = NoIntervention
        /\ TaskOf(unit[u].task).status = "COMPLETED"
        /\ TaskOf(unit[u].task).output_data = [kind |-> "validation", val |-> NoIntervention]
        /\ TaskOf(unit[u].task).completed_at
        /\ \E l \in Loops : pc[l] = "l161"

\* C10: when the monitor call, the validate call or the reading of the
\* validation result raised, the unit goes to its handler, whose step leaves
\* the task FAILED with the error as output_data, releases the lock and
\* changes no other task, no agent and no other thread.
HandlerStep(u) == pc[u] = "e149" /\ pc'[u] = "e155"

Raised(u) == unit[u].err # "none"

C10_ExceptionIsolated ==
    /\ [][\A u \in Units : HandlerStep(u) =>
             LET t == unit[u].task
                 after == projects'[t[1]].tasks[t[2]] IN
             /\ after.status = "FAILED"
             /\ after.output_data = [kind |-> "error", val |-> unit[u].err]
             /\ \A o \in TaskIds \ {t} : projects'[o[1]].tasks[o[2]] = TaskOf(o)
             /\ agent_pool' = agent_pool
             /\ is_running' = is_running
             /\ lock' = Free
             /\ \A th \in Threads \ {u} : pc'[th] = pc[th]]_vars
    /\ [](\A u \in Units : Raised(u) => pc[u] \in {"e148", "e149", "e155", "uas56", "get46", "uas58"})

C10_Witness ==
    \E u \in Units :
        /\ unit[u].err = "KeyError"
        /\ pc[u] = "e155"
        /\ lock = Free
        /\ TaskOf(unit[u].task).status = "FAILED"
        /\ TaskOf(unit[u].task).output_data = [kind |-> "error", val |-> "KeyError"]
        /\ \E o \in TaskIds \ {unit[u].task} : TaskOf(o) = NewTask
        /\ \E l \in Loops : pc[l] = "l161"

\* C11: update_agent_status called with an agent id that is not in the pool
\* gets past its get_agent call (line 57), as it must to return, and no step
\* taken while the call is under way changes the pool or a task.
UnknownAgentCall ==
    /\ pc[Client] \in {"uas56", "get46", "uas58"}
    /\ ~Registered(uas_args[Client].agent)

C11_UnknownAgentIsNoOp ==
    /\ UnknownAgentCall ~> (pc[Client] = "uas58")
    /\ [][UnknownAgentCall => (agent_pool' = agent_pool /\ projects' = projects)]_vars

\* C12: a register_agent call with an id of the pool changes that entry's
\* name and capabilities, sets its status IDLE and leaves the number and order
\* of the entries and every other entry as they were; with a new id it puts
\* exactly one IDLE entry after the others; no id is in the pool twice.
PoolIds(pool) == [i \in 1..Len(pool) |-> pool[i].id]

C12_RegisterIsUpsert ==
    /\ [][agent_pool' # agent_pool =>
            \E id \in AgentIds, name \in RegistryNames, caps \in RegistryCaps :
                IF \E i \in 1..Len(agent_pool) : agent_pool[i].id = id
                THEN /\ PoolIds(agent_pool') = PoolIds(agent_pool)
                     /\ \A i \in 1..Len(agent_pool) :
                            IF agent_pool[i].id = id
                            THEN /\ agent_pool'[i].name = name
                                 /\ agent_pool'[i].capabilities = caps
                                 /\ agent_pool'[i].status = "IDLE"
                            ELSE agent_pool'[i] = agent_pool[i]
                ELSE /\ Len(agent_pool') = Len(agent_pool) + 1
                     /\ SubSeq(agent_pool', 1, Len(agent_pool)) = agent_pool
                     /\ agent_pool'[Len(agent_pool')] =
                            [id |-> id, name |-> name, capabilities |-> caps,
                             status |-> "IDLE", current_task_id |-> NoTask]]_vars
    /\ [](\A i, j \in 1..Len(agent_pool) : agent_pool[i].id = agent_pool[j].id => i = j)

\* An agent that was BUSY on a task has been registered again under another
\* name: it is IDLE, and still the first of two entries.
C12_Witness ==
    /\ Len(agent_pool) = 2
    /\ agent_pool[1].id = "agent-2"
    /\ agent_pool[1].name = "TextAgent"
    /\ agent_pool[1].status = "IDLE"
    /\ agent_pool[1].current_task_id # NoTask
    /\ agent_pool[2].status = "BUSY"

\* C13: find_available_agent returns the first agent, in registration order,
\* that is IDLE and has every required capability, and none exactly when
\* there is no such agent; the agent it returns is not BUSY and the call
\* changes no agent.
FindStep == ret' # ret /\ ret'.call = "find_available_agent"

Eligible(i, required) ==
    agent_pool[i].status = "IDLE" /\ required \subseteq agent_pool[i].capabilities

C13_FindsFirstIdleCapable ==
    [][FindStep =>
          LET required == ret'.required
              found == ret'.value IN
          /\ agent_pool' = agent_pool
          /\ (found = "None") <=> ~ \E i \in 1..Len(agent_pool) : Eligible(i, required)
          /\ found # "None" =>
                \E i \in 1..Len(agent_pool) :
                    /\ agent_pool[i].id = found
                    /\ agent_pool[i].status # "BUSY"
                    /\ Eligible(i, required)
                    /\ \A j \in 1..(i - 1) : ~Eligible(j, required)]_vars

\* The call passed over a BUSY agent that has the capability and returned the
\* IDLE one registered after it.
C13_Witness ==
    /\ ret.call = "find_available_agent"
    /\ ret.required = {"python"}
    /\ ret.value = "agent-1"
    /\ Len(agent_pool) = 2
    /\ agent_pool[1].id = "agent-2"
    /\ agent_pool[1].status = "BUSY"
    /\ "python" \in agent_pool[1].capabilities
    /\ agent_pool[2].status = "IDLE"

\* C14: get_ready_tasks returns each task once that is PENDING with every
\* dependency COMPLETED, and no other: in the scrape/script graph task 1 when
\* it is PENDING and tasks 2 and 3 when they are PENDING and task 1 is
\* COMPLETED, so <<1>> at first and <<2, 3>> once task 1 is COMPLETED; in a
\* single-task graph its task when PENDING.  The call changes no task.
ReadyStep == ret' # ret /\ ret'.call = "get_ready_tasks"

C14_ReadyTasks ==
    [][ReadyStep =>
          LET ts == projects[ret'.goal].tasks
              ready == ret'.value
              returned == {ready[i] : i \in 1..Len(ready)} IN
          /\ projects' = projects
          /\ Len(ready) = Cardinality(returned)
          /\ returned \subseteq DOMAIN ts
          /\ (1 \in returned) <=> (ts[1].status = "PENDING")
          /\ \A k \in DOMAIN ts \ {1} :
                (k \in returned) <=> (ts[k].status = "PENDING" /\ ts[1].status = "COMPLETED")
          /\ (Len(ts) = 3 /\ \A k \in 1..3 : ts[k].status = "PENDING") => ready = <<1>>
          /\ (/\ Len(ts) = 3
              /\ ts[1].status = "COMPLETED"
              /\ ts[2].status = "PENDING"
              /\ ts[3].status = "PENDING") => ready = <<2, 3>>]_vars

C14_Witness ==
    /\ ret.call = "get_ready_tasks"
    /\ ret.value = <<2, 3>>
    /\ Len(projects) = 1
    /\ projects[1].description = TextBothMixedCase
    /\ projects[1].tasks[1].status = "COMPLETED"
    /\ projects[1].tasks[2].status = "PENDING"
    /\ projects[1].tasks[3].status = "PENDING"

\* C15: submit_goal adds one project after the others; a description that
\* names both script and scrape, in whatever case, gives three PENDING tasks,
\* task 1 without dependency and tasks 2 and 3 depending on task 1 alone; any
\* other description gives one PENDING task that requires general and depends
\* on nothing; dependencies are tasks of the same project and the new goal's
\* id is no earlier goal's.
SameLetter(c, letter) ==
    c = letter \/ \E i \in 1..26 : LowerCase[i] = letter /\ UpperCase[i] = c

Names(text, word) ==
    \E off \in 0..(Len(text) - Len(word)) :
        \A j \in 1..Len(word) : SameLetter(text[off + j], word[j])

C16_StartStopIdempotent ==
    [][/\ is_running => StartedLoops' = StartedLoops
       /\ is_running' # is_running =>
             /\ agent_pool' = agent_pool
             /\ projects' = projects
             /\ IF is_running'
                THEN /\ StartedLoops \subseteq StartedLoops'
                     /\ Cardinality(StartedLoops') = Cardinality(StartedLoops) + 1
                ELSE pc' = pc]_vars

\* The scheduler runs with its one loop between passes, where a second
\* start() returns at once.
C16_Witness ==
    /\ is_running
    /\ pc[Client] = "idle"
    /\ Cardinality(StartedLoops) = 1
    /\ \E l \in Loops : pc[l] = "l178"
    /\ agent_pool # <<>>

\* C17: once the running flag is false, every assignment loop that was
\* started exits, unless start() sets the flag again.
C17_LoopExitsAfterStop ==
    \A l \in Loops :
        (pc[l] \notin {"none", "exit"} /\ ~is_running) ~> (pc[l] = "exit" \/ is_running)

\* What a completed get_best_action call returned.
Called == ret.call \in {"minimax", "expectimax"}

Considered == ret.value.considered_actions

ConsideredActions == {Considered[i].action : i \in 1..Len(Considered)}

\* C18: for every AgentState with error_count >= 3, whatever its other
\* fields, get_best_action of either engine returns ESCALATE, and ESCALATE is
\* the only action it considered.
C18_MandatoryEscalation ==
    (Called /\ state.error_count >= 3) =>
        /\ ret.value.best_action = "ESCALATE"
        /\ Len(Considered) = 1
        /\ ConsideredActions = {"ESCALATE"}

C18_Witness ==
    /\ ret.call = "minimax"
    /\ ret.depth = DefaultDepth
    /\ state.error_count >= 3
    /\ state.quality_score = Frac(95, 100)
    /\ state.task_progress = Frac(8, 10)
    /\ ret.value.best_action = "ESCALATE"
    /\ ConsideredActions = {"ESCALATE"}

\* C19: for every AgentState with quality_score >= 0.9 (0.9 included) and
\* error_count < 3, the action get_best_action of either engine returns is
\* ALLOW or WARN, and CORRECT and ESCALATE are not among the considered
\* actions.
C19_HighQualityAllowsOrWarns ==
    (Called /\ state.quality_score >= Frac(9, 10) /\ state.error_count < 3) =>
        /\ ret.value.best_action \in {"ALLOW", "WARN"}
        /\ ConsideredActions \subseteq {"ALLOW", "WARN"}

\* The legal actions of a state (spec, section 4.1).
LegalActions(s) ==
    IF s.error_count >= 3 THEN {"ESCALATE"}
    ELSE IF s.quality_score >= Frac(9, 10) THEN {"ALLOW", "WARN"}
    ELSE IF s.quality_score < Frac(4, 10) THEN {"CORRECT", "ESCALATE"}
    ELSE {"ALLOW", "WARN", "CORRECT", "ESCALATE"}

\* C20: the considered_actions get_best_action returns hold every legal
\* action of the state exactly once and no other action, in non-increasing
\* order of score, and best_action with best_score is an entry of the list
\* whose score is the greatest.
C20_RankedAlternatives ==
    Called =>
        /\ ConsideredActions = LegalActions(state)
        /\ Len(Considered) = Cardinality(LegalActions(state))
        /\ \A i \in 1..Len(Considered) - 1 : Considered[i].score >= Considered[i + 1].score
        /\ \E i \in 1..Len(Considered) :
               /\ Considered[i].action = ret.value.best_action
               /\ Considered[i].score = ret.value.best_score
        /\ \A i \in 1..Len(Considered) : Considered[i].score <= ret.value.best_score

\* C21: a get_best_action call leaves the state it was handed as it was, and
\* a call of the same engine with the same depth on the same state returns the
\* same best action, best score and ranked alternatives as the call before
\* it, whatever the order in which the process iterates the set of legal
\* actions.
CallStep == ret' # ret /\ ret'.call \in {"minimax", "expectimax"}

C21_ReferentiallyTransparent ==
    [][/\ CallStep => state' = state
       /\ (CallStep /\ Called /\ ret'.call = ret.call /\ ret'.depth = ret.depth) =>
             /\ ret'.value.best_action = ret.value.best_action
             /\ ret'.value.best_score = ret.value.best_score
             /\ ret'.value.considered_actions = ret.value.considered_actions]_vars

\* C22: for a state with quality_score from 0.4 to 0.6, error_count 1 or 2
\* and task_progress at most 0.5, whatever its resource_usage, MinimaxAgent
\* with depth 2 returns CORRECT, whose score is strictly greater than those
\* of ALLOW, WARN and ESCALATE.
Recoverable(s) ==
    /\ s.quality_score >= Frac(4, 10)
    /\ s.quality_score <= Frac(6, 10)
    /\ s.error_count \in {1, 2}
    /\ s.task_progress <= Frac(5, 10)

C22_CorrectOnMediumState ==
    (ret.call = "minimax" /\ ret.depth = DefaultDepth /\ Recoverable(state)) =>
        /\ ret.value.best_action = "CORRECT"
        /\ ConsideredActions = Actions
        /\ \A i \in 1..Len(Considered) :
               \/ Considered[i].action = "CORRECT" /\ Considered[i].score = ret.value.best_score
               \/ Considered[i].action # "CORRECT" /\ Considered[i].score < ret.value.best_score

\* The test's instance: quality 0.6, one error, resource usage 0.5, progress
\* 0.5; CORRECT scores 43.324, ahead of ALLOW's 41.743.
C22_Witness ==
    /\ ret.call = "minimax"
    /\ ret.depth = DefaultDepth
    /\ state = AgentState(Frac(6, 10), 1, Frac(5, 10), Frac(5, 10))
    /\ ret.value.best_action = "CORRECT"
    /\ ret.value.best_score = 43324 * (Scale \div 1000)
    /\ Considered[2] = [action |-> "ALLOW", score |-> 41743 * (Scale \div 1000)]

\* C24: the thread that holds the lock is not inside the monitor call, the
\* simulated work and the validate call, or the loop's sleep; and a loop that
\* waits for the lock at line 161 while an execution unit is in flight gets
\* it, so that its pass runs.
InCollaborator(u) == pc[u] \in {"e119", "e131"}

InSleep(l) == pc[l] = "l178"

InFlight(u) == pc[u] # "none"

C24_LockNotHeldAcrossWork ==
    /\ [](\A u \in Units : InCollaborator(u) => lock # u)
    /\ [](\A l \in Loops : InSleep(l) => lock # l)
    /\ \A l \in Loops :
           (pc[l] = "l161" /\ \E u \in Units : InFlight(u)) ~> (pc[l] = "l162")

\* C25: the task of every execution unit in flight (the task an assignment
\* marked RUNNING and started the unit for) eventually is COMPLETED or FAILED,
\* and no unit that waits for the lock waits for ever.
TaskDone(u) ==
    InFlight(u) /\ TaskOf(unit[u].task).status \in {"COMPLETED", "FAILED"}

WaitsForLock(u) == pc[u] \in AcquireSites

C25_RunningTaskTerminates ==
    \A u \in Units :
        /\ InFlight(u) ~> TaskDone(u)
        /\ WaitsForLock(u) ~> ~WaitsForLock(u)

\* C26: whenever the lock is free, every RUNNING task has exactly one BUSY
\* agent whose current_task_id is the task's id, and every IDLE agent has no
\* current_task_id; also after an agent that is BUSY has been registered
\* again.
AgentsOn(t) ==
    {i \in 1..Len(agent_pool) :
        agent_pool[i].status = "BUSY" /\ agent_pool[i].current_task_id = t}

PassingLoops == {l \in Loops : pc[l] \in {"l161", "l162", "find68", "find69", "l178"}}

C27_AtMostOneLoop == Cardinality(PassingLoops) <= 1

\* The reference expectimax value (spec, section 4.1) of an action in a
\* state at a depth, over the evaluation function of the engine asked: V at
\* depth 0 or in a terminal state, otherwise the probability-weighted sum,
\* over the action's outcomes, of the greatest value of a legal action of the
\* successor at depth - 1.
EvaluateStateOf(engine, s) ==
    IF engine = "minimax" THEN MinimaxEvaluateState(s) ELSE ExpectimaxEvaluateState(s)

RECURSIVE ReferenceValue(_, _, _, _)
ReferenceValue(engine, s, action, depth) ==
    IF depth = 0 \/ is_terminal(s) THEN EvaluateStateOf(engine, s)
    ELSE LET outcomes == ExpectimaxGetActionOutcomes(s, action)
             best(next) == SetMax({ReferenceValue(engine, next, a, depth - 1) :
                                      a \in LegalActions(next)})
             weighted(i) == outcomes[i][1] * (best(outcomes[i][2]) \div 10)
         IN IF Len(outcomes) = 1 THEN weighted(1) ELSE weighted(1) + weighted(2)

RECURSIVE SumOfProbabilities(_)
SumOfProbabilities(outcomes) ==
    IF outcomes = <<>> THEN 0
    ELSE Head(outcomes)[1] + SumOfProbabilities(Tail(outcomes))

\* C28: the score get_best_action reports for every legal action of the
\* state is the reference expectimax value of that action at the agent's
\* depth, for every depth from 0, and the probabilities of every action's
\* outcomes sum to 1 (ten tenths).
C28_ScoreIsExpectimaxValue ==
    Called =>
        /\ \A i \in 1..Len(Considered) :
               Considered[i].action \in LegalActions(state) =>
                   Considered[i].score =
                       ReferenceValue(ret.call, state, Considered[i].action, ret.depth)
        /\ \A a \in Actions : SumOfProbabilities(ExpectimaxGetActionOutcomes(state, a)) = 10

\* C29: the evaluation function returns +1000 for a state with task_progress
\* >= 1.0, whatever its quality, -1000 for any other state with
\* quality_score <= 0.1, and for every other state exactly
\* 70 * quality_score + 30 * task_progress - 200 * error_count
\* - 40 * resource_usage.
C29_EvaluationFunction ==
    ret.call = "_evaluate_state" =>
        ret.value =
            IF state.task_progress >= Scale THEN 1000 * Scale
            ELSE IF state.quality_score <= Frac(1, 10) THEN 0 - 1000 * Scale
            ELSE 70 * state.quality_score + 30 * state.task_progress
                 - 200 * Scale * state.error_count - 40 * state.resource_usage

\* C30: every successor the outcome model of either agent produces, for
\* every action and outcome, from a state whose fields are inside their
\* domains has quality_score, resource_usage and task_progress in [0, 1] and
\* error_count >= 0.
InDomain(s) ==
    /\ 0 <= s.quality_score /\ s.quality_score <= Scale
    /\ 0 <= s.resource_usage /\ s.resource_usage <= Scale
    /\ 0 <= s.task_progress /\ s.task_progress <= Scale
    /\ s.error_count >= 0

C30_SuccessorsInDomain ==
    (ret.call \in {"_apply_action", "_get_action_outcomes"} /\ InDomain(state)) =>
        \A i \in 1..Len(ret.value) : InDomain(ret.value[i][2])

\* C31: from every state that is not terminal (quality_score above 0.1 and at
\* most 1, task_progress below 1.0) the one outcome of ESCALATE, in either
\* agent, is a terminal failure: quality_score <= 0.1 and task_progress < 1.0.
\* So at every depth from 1 the score get_best_action reports for ESCALATE is
\* -1000, and it returns ESCALATE only when every action it considered
\* scores -1000, ESCALATE alone included.
NotTerminal(s) ==
    /\ s.quality_score > Frac(1, 10) /\ s.quality_score <= Scale
    /\ s.task_progress >= 0 /\ s.task_progress < Scale

TerminalFailure(s) == s.quality_score <= Frac(1, 10) /\ s.task_progress < Scale

C31_EscalateIsTerminalFailure ==
    NotTerminal(state) =>
        /\ Len(ExpectimaxGetActionOutcomes(state, "ESCALATE")) = 1
        /\ ExpectimaxGetActionOutcomes(state, "ESCALATE")[1][1] = 10
        /\ TerminalFailure(ExpectimaxGetActionOutcomes(state, "ESCALATE")[1][2])
        /\ TerminalFailure(MinimaxApplyAction(state, "ESCALATE"))
        /\ (Called /\ ret.depth >= 1) =>
              /\ \A i \in 1..Len(Considered) :
                     Considered[i].action = "ESCALATE" =>
                         Considered[i].score = 0 - 1000 * Scale
              /\ ret.value.best_action = "ESCALATE" =>
                     \A i \in 1..Len(Considered) : Considered[i].score = 0 - 1000 * Scale

\* ExpectimaxAgent at depth 2 on a low-quality state: ESCALATE is legal,
\* scores -1000 and is passed over for CORRECT.
C31_Witness ==
    /\ ret.call = "expectimax"
    /\ ret.depth = DefaultDepth
    /\ state.quality_score = Frac(3, 10)
    /\ state.error_count = 2
    /\ state.task_progress = Frac(5, 10)
    /\ Len(Considered) = 2
    /\ Considered[1].action = "CORRECT"
    /\ Considered[1].score > 0 - 1000 * Scale
    /\ Considered[2] = [action |-> "ESCALATE", score |-> 0 - 1000 * Scale]
    /\ ret.value.best_action = "CORRECT"



=============================================================================
